---- MODULE Spec2Model ----
(***************************************************************************)
(* The queue/playback state machine of PersonalPlayer: Playlist and        *)
(* AudioController of __main__.py (sentinel queue) and of audio.py (plain  *)
(* queue), driven by the event-loop thread (command handlers and play_song *)
(* tasks) and by the voice client's player threads, which run the `after`  *)
(* callback play_next when a source ends.  The two threads share the       *)
(* queue list and _now_playing without a lock, so every list operation and *)
(* attribute access of play_next is one step.                              *)
(***************************************************************************)
EXTENDS Naturals, Sequences, FiniteSets, TLC

\* Bounds of the model.
MaxSongs == 3   \* tracks the resolver hands out in one run
MaxOps == 3     \* commands issued in one run
MaxGuilds == 2  \* guild ids
MaxCallers == 3 \* get_audio coroutines

None == 0
Impls == {"main", "audio"}
Songs == 1..MaxSongs

\* What one query resolves to: a single track, or the entries of a playlist.
BatchSizes == {1, 2}

VARIABLES
    impl,          \* which source file the session runs: "main" (__main__.py) or "audio" (audio.py)
    queue,         \* Playlist._queue; None is the dummy entry of __main__.py
    now_playing,   \* AudioController._now_playing
    players,       \* every AudioPlayer thread the voice client has started
    vc_player,     \* voice_client._player: index into players, or None
    tasks,         \* play_song tasks created on the loop and not yet run
    loop,          \* what the event-loop thread is executing
    nextId,        \* id the resolver gives the next track
    ops,           \* commands issued so far
    logging,       \* whether the history of voice_client.play calls is kept
    calls,         \* history: the voice_client.play calls issued, and whether each was accepted
    last,          \* history: the command begun last, with the state it met
    clean,         \* history: only add commands and error-free natural endings so far
    audio_controllers, \* main(): guild id -> controller, None when absent
    callers,       \* get_audio coroutines
    nextCtl        \* identity of the next AudioController constructed

regVars == <<audio_controllers, callers, nextCtl>>
vars == <<impl, queue, now_playing, players, vc_player, tasks, loop, nextId, ops, logging, calls, last, clean,
          audio_controllers, callers, nextCtl>>

----------------------------------------------------------------------------
\* The voice client (discord VoiceClient / AudioPlayer), as the code uses it.

\* voice_client.is_playing(): a player is attached, resumed and not ended.
is_playing == vc_player # None /\ players[vc_player].st = "playing"

\* The voice client holds a track: playing it, or paused on it.
Holds == vc_player # None /\ players[vc_player].st \in {"playing", "paused"}

is_paused == vc_player # None /\ players[vc_player].st = "paused"

\* voice_client.pause(): clears the attached player's resumed flag.
vc_pause(ps, cur) ==
    IF cur # None /\ ps[cur].st = "playing" THEN [ps EXCEPT ![cur].st = "paused"] ELSE ps

vc_resume_noop(ps, cur) == ps

\* voice_client.resume(): sets the attached player's resumed flag.
vc_resume(ps, cur) ==
    IF cur # None /\ ps[cur].st = "paused" THEN [ps EXCEPT ![cur].st = "playing"] ELSE ps

\* voice_client.stop(): ends the attached player, whose thread then calls
\* after(None) (entry: where the callback begins); the client lets go of it.
vc_stop(ps, cur, entry) ==
    IF cur # None /\ ps[cur].st \in {"playing", "paused"}
    THEN [ps EXCEPT ![cur].st = "cb", ![cur].pc = entry, ![cur].err = FALSE]
    ELSE ps

\* A player thread that has returned from its callback.
Dead == [song |-> None, st |-> "dead", err |-> FALSE, pc |-> "-", loc |-> None]

NewPlayer(song) == [song |-> song, st |-> "playing", err |-> FALSE, pc |-> "run", loc |-> None]

----------------------------------------------------------------------------
\* Playlist

\* Playlist.__init__: [None] in __main__.py, [] in audio.py.
Playlist_init(im) == IF im = "main" THEN <<None>> ELSE <<>>

\* Playlist.add after _download returned `songs`: list.append(*songs) in
\* __main__.py takes exactly one argument; list.extend(songs) in audio.py.
Playlist_add_raises(im, songs) == im = "main" /\ Len(songs) # 1

Playlist_add(im, q, songs) == q \o songs

\* Playlist.clear's list.clear().
Playlist_clear(q) == <<>>

\* Playlist.add_dummy (__main__.py).
add_dummy(q) == Append(q, None)

\* Playlist.titles: the Song entries of the queue, in order.
titles(q) == SelectSeq(q, LAMBDA x : x # None)

----------------------------------------------------------------------------
\* AudioController.play_next, one list operation or attribute access per
\* step.  pc is the position, loc the local `song`, err the callback's
\* argument; the result is the new position and local together with the
\* queue, _now_playing and the song whose play_song task is created.

pop0_keep(q) == q

\* list.pop(0) on a list that is not empty.
pop0(q) == Tail(q)

PN(pc, loc, q, np, spawn) == [pc |-> pc, loc |-> loc, q |-> q, np |-> np, spawn |-> spawn]

raises_error_never(error) == FALSE

\* play_next: if error: raise error
raises_error(error) == error

play_next_main(pc, loc, err, q, np) ==
    CASE pc = "pn_start" ->
            IF raises_error(err) THEN PN("raise", loc, q, np, None) ELSE PN("pn_pop", loc, q, np, None)
      [] pc = "pn_pop" ->       \* Playlist.next: self._queue.pop(0)
            IF q = <<>> THEN PN("pn_dummy", loc, q, np, None)
            ELSE PN("pn_peek", loc, pop0(q), np, None)
      [] pc = "pn_peek" ->      \* Playlist.next: return self._queue[0]
            IF q = <<>> \/ Head(q) = None THEN PN("pn_dummy", loc, q, np, None)
            ELSE PN("pn_create", Head(q), q, np, None)
      [] pc = "pn_dummy" ->     \* self.playlist.add_dummy()
            PN("pn_clear", loc, add_dummy(q), np, None)
      [] pc = "pn_clear" ->     \* self._now_playing = None; return
            PN("ret", loc, q, None, None)
      [] pc = "pn_create" ->    \* self.bot.loop.create_task(self.play_song(song))
            PN("ret", loc, q, np, loc)

play_next_audio(pc, loc, err, q, np) ==
    CASE pc = "pn_start" ->
            IF raises_error(err) THEN PN("raise", loc, q, np, None) ELSE PN("pn_np", loc, q, np, None)
      [] pc = "pn_np" ->        \* if self._now_playing is None
            IF np = None THEN PN("pn_cur", loc, q, np, None) ELSE PN("pn_pop", loc, q, np, None)
      [] pc = "pn_cur" ->       \* current := self.playlist.current
            IF q = <<>> THEN PN("raise", loc, q, np, None)
            ELSE PN("pn_create", Head(q), q, np, None)
      [] pc = "pn_pop" ->       \* Playlist.next: self._queue.pop(0)
            IF q = <<>> THEN PN("pn_clear", loc, q, np, None)
            ELSE PN("pn_peek", loc, pop0(q), np, None)
      [] pc = "pn_peek" ->      \* Playlist.next: return self._queue[0]
            IF q = <<>> THEN PN("pn_clear", loc, q, np, None)
            ELSE PN("pn_create", Head(q), q, np, None)
      [] pc = "pn_clear" ->     \* self._now_playing = None; return
            PN("ret", loc, q, None, None)
      [] pc = "pn_create" ->    \* self.bot.loop.create_task(self.play_song(song))
            PN("ret", loc, q, np, loc)

play_next(im, pc, loc, err, q, np) ==
    IF im = "main" THEN play_next_main(pc, loc, err, q, np)
    ELSE play_next_audio(pc, loc, err, q, np)

\* Where play_next stands after `if error: raise error`.
PNEntry(im, err) == play_next(im, "pn_start", None, err, <<>>, None).pc

PNpcs == {"pn_start", "pn_np", "pn_cur", "pn_pop", "pn_peek", "pn_dummy", "pn_clear", "pn_create"}

\* A task created by play_next: the song and who called play_next.
Spawn(ts, song, by) == IF song = None THEN ts ELSE Append(ts, [song |-> song, by |-> by])

----------------------------------------------------------------------------
\* The state a command meets.

\* No play_song task is waiting and no player thread is inside its callback.
Quiet == tasks = <<>> /\ \A i \in 1..Len(players) : players[i].st # "cb"

IdleNow == ~Holds /\ now_playing = None /\ Quiet
PlayingNow == is_playing /\ now_playing = players[vc_player].song /\ Quiet
PausedNow == is_paused /\ now_playing = players[vc_player].song /\ Quiet

PreClass ==
    IF IdleNow THEN "Idle" ELSE IF PlayingNow THEN "Playing"
    ELSE IF PausedNow THEN "Paused" ELSE "Other"

\* What is remembered of a command as it begins: the state it met, whether
\* the session had seen only adds and error-free endings until then (for an
\* add to an idle session), the queue a skip met while playing the track at
\* its head, whether an add follows a stop that met the session playing
\* (kept with the history of play calls), the number of play calls logged so far, the number of tracks
\* an add appended, and later what the command returned.
Snapshot(op) ==
    [op |-> op, pre |-> PreClass, clean |-> clean /\ op = "add" /\ IdleNow,
     q |-> IF op = "skip" /\ PlayingNow /\ queue # <<>> /\ Head(queue) = now_playing
           THEN queue ELSE <<>>,
     stopped |-> logging /\ op = "add" /\ last.op = "stop" /\ last.pre = "Playing"
                 /\ last.ret = "None",
     nc |-> Len(calls), n |-> 0, ret |-> "-"]

LoopIdle == [op |-> "idle", pc |-> "-", loc |-> None]

Log(song, ok) == IF logging THEN Append(calls, [song |-> song, ok |-> ok]) ELSE calls

CurSong == IF vc_player = None THEN None ELSE players[vc_player].song

----------------------------------------------------------------------------
\* The session, after AudioController(bot, Playlist(), guild).

SessInit ==
    /\ impl \in Impls
    /\ queue = Playlist_init(impl)
    /\ now_playing = None
    /\ players = <<>>
    /\ vc_player = None
    /\ tasks = <<>>
    /\ loop = LoopIdle
    /\ nextId = 1
    /\ ops = 0
    /\ calls = <<>>
    /\ last = [op |-> "none", pre |-> "Idle", clean |-> FALSE, q |-> <<>>, stopped |-> FALSE,
               nc |-> 0, n |-> 0, ret |-> "-"]
    /\ clean = TRUE

\* The command layer of __main__.py lets skip, pause and stop through only
\* when voice_client.is_playing() (the is_playing() check); audio.py's
\* methods are called as they are.
is_playing_check(im) == im = "main" => is_playing

Begin(op, pc0) ==
    /\ loop.op = "idle"
    /\ ops < MaxOps
    /\ loop' = [op |-> op, pc |-> pc0, loc |-> None]
    /\ ops' = ops + 1
    /\ last' = Snapshot(op)
    /\ clean' = FALSE
    /\ UNCHANGED <<regVars, logging, impl, queue, now_playing, players, vc_player, tasks, nextId, calls>>

Finish(ret) ==
    /\ loop' = LoopIdle
    /\ last' = [last EXCEPT !.ret = ret]

AddResolveFail_appends ==
    /\ loop.op = "idle"
    /\ ops < MaxOps
    /\ nextId <= MaxSongs
    /\ ops' = ops + 1
    /\ queue' = Append(queue, nextId)
    /\ last' = [Snapshot("add") EXCEPT !.ret = "raised"]
    /\ UNCHANGED <<regVars, logging, impl, now_playing, players, vc_player, tasks, loop, nextId, calls, clean>>

\* add_song(query) / add_songs(query) when Playlist._download raises:
\* nothing was appended.
AddResolveFail ==
    /\ loop.op = "idle"
    /\ ops < MaxOps
    /\ ops' = ops + 1
    /\ last' = [Snapshot("add") EXCEPT !.ret = "raised"]
    /\ UNCHANGED <<regVars, logging, impl, queue, now_playing, players, vc_player, tasks, loop, nextId, calls, clean>>

\* add_song(query) / add_songs(query), up to the end of Playlist.add:
\* _download returns n songs, which are appended.
AddResolve ==
    /\ loop.op = "idle"
    /\ ops < MaxOps
    /\ ops' = ops + 1
    /\ \E n \in BatchSizes :
        /\ nextId + n - 1 <= MaxSongs
        /\ LET songs == [i \in 1..n |-> nextId + i - 1] IN
            /\ nextId' = nextId + n
            /\ IF Playlist_add_raises(impl, songs)
               THEN /\ last' = [Snapshot("add") EXCEPT !.ret = "raised"]
                    /\ UNCHANGED <<queue, loop>>
               ELSE /\ queue' = Playlist_add(impl, queue, songs)
                    /\ loop' = [op |-> "add", pc |-> "add_chk", loc |-> None]
                    /\ last' = [Snapshot("add") EXCEPT !.n = n]
    /\ UNCHANGED <<regVars, logging, impl, now_playing, players, vc_player, tasks, calls, clean>>

add_song_always(playing) == TRUE

\* add_song: if not self.guild.voice_client.is_playing(): play_next() ... else QUEUED
add_song_starts(playing) == ~playing

AddCheck ==
    /\ loop.op = "add" /\ loop.pc = "add_chk"
    /\ IF add_song_starts(is_playing)
       THEN loop' = [loop EXCEPT !.pc = PNEntry(impl, FALSE)] /\ last' = last
       ELSE Finish("QUEUED")
    /\ UNCHANGED <<regVars, logging, impl, queue, now_playing, players, vc_player, tasks, nextId, ops, calls, clean>>

\* Who calls play_next on the loop thread: skip, an add that met the session
\* idle, or an add that met it otherwise.
Caller ==
    IF loop.op = "skip" THEN "skip"
    ELSE IF last.pre = "Idle" THEN "add_idle" ELSE "add_busy"

\* play_next called by add_song or skip, on the loop thread.
LoopPlayNext ==
    /\ loop.op \in {"add", "skip"} /\ loop.pc \in PNpcs
    /\ LET r == play_next(impl, loop.pc, loop.loc, FALSE, queue, now_playing) IN
        /\ queue' = r.q
        /\ now_playing' = r.np
        /\ tasks' = Spawn(tasks, r.spawn, Caller)
        /\ IF r.pc = "raise" THEN Finish("raised")
           ELSE IF r.pc = "ret" THEN Finish(IF loop.op = "add" THEN "NOW_PLAYING" ELSE "None")
           ELSE loop' = [loop EXCEPT !.pc = r.pc, !.loc = r.loc] /\ last' = last
    /\ UNCHANGED <<regVars, logging, impl, players, vc_player, nextId, ops, calls, clean>>

\* skip command
BeginSkip == is_playing_check(impl) /\ Begin("skip", "skip_stop")

\* skip: self.guild.voice_client.stop(), then self.play_next()
SkipStop ==
    /\ loop.op = "skip" /\ loop.pc = "skip_stop"
    /\ players' = vc_stop(players, vc_player, PNEntry(impl, FALSE))
    /\ vc_player' = None
    /\ loop' = [loop EXCEPT !.pc = PNEntry(impl, FALSE)]
    /\ UNCHANGED <<regVars, logging, impl, queue, now_playing, tasks, nextId, ops, calls, last, clean>>

\* pause command
BeginPause == is_playing_check(impl) /\ Begin("pause", "pause")

\* AudioController.pause
Pause ==
    /\ loop.op = "pause"
    /\ IF is_playing
       THEN /\ players' = vc_pause(players, vc_player)
            /\ Finish("True")
       ELSE /\ players' = vc_resume(players, vc_player)
            /\ Finish("False")
    /\ UNCHANGED <<regVars, logging, impl, queue, now_playing, vc_player, tasks, nextId, ops, calls, clean>>

\* stop command
BeginStop == is_playing_check(impl) /\ Begin("stop", "stop_chk")

\* stop: if vc.is_playing(): vc.pause()
StopCheck ==
    /\ loop.op = "stop" /\ loop.pc = "stop_chk"
    /\ players' = IF is_playing THEN vc_pause(players, vc_player) ELSE players
    /\ loop' = [loop EXCEPT !.pc = "stop_clear"]
    /\ UNCHANGED <<regVars, logging, impl, queue, now_playing, vc_player, tasks, nextId, ops, calls, last, clean>>

\* stop: self.playlist.clear(), the list.clear() of it
StopClear ==
    /\ loop.op = "stop" /\ loop.pc = "stop_clear"
    /\ queue' = Playlist_clear(queue)
    /\ IF impl = "main"
       THEN loop' = [loop EXCEPT !.pc = "stop_dummy"] /\ last' = last
       ELSE Finish("None")
    /\ UNCHANGED <<regVars, logging, impl, now_playing, players, vc_player, tasks, nextId, ops, calls, clean>>

\* Playlist.clear of __main__.py: self.add_dummy()
StopDummy ==
    /\ loop.op = "stop" /\ loop.pc = "stop_dummy"
    /\ queue' = add_dummy(queue)
    /\ Finish("None")
    /\ UNCHANGED <<regVars, logging, impl, now_playing, players, vc_player, tasks, nextId, ops, calls, clean>>

\* The loop runs the oldest play_song task: self._now_playing = song
PlaySongSet ==
    /\ loop.op = "idle" /\ tasks # <<>>
    /\ now_playing' = Head(tasks).song
    /\ loop' = [op |-> "task", pc |-> "ps_play", loc |-> Head(tasks).song]
    /\ tasks' = Tail(tasks)
    /\ UNCHANGED <<regVars, logging, impl, queue, players, vc_player, nextId, ops, calls, last, clean>>

\* play_song: voice_client.play(source, after=self.play_next); the client
\* raises ClientException('Already playing audio.') when is_playing().
PlaySongPlay ==
    /\ loop.op = "task" /\ loop.pc = "ps_play"
    /\ IF is_playing
       THEN /\ calls' = Log(loop.loc, FALSE)
            /\ UNCHANGED <<players, vc_player>>
       ELSE /\ calls' = Log(loop.loc, TRUE)
            /\ players' = Append(players, NewPlayer(loop.loc))
            /\ vc_player' = Len(players) + 1
    /\ loop' = LoopIdle
    /\ UNCHANGED <<regVars, logging, impl, queue, now_playing, tasks, nextId, ops, last, clean>>

\* A player's source ends, with or without an error, and its thread calls
\* after(error): play_next raises the error at once (the player thread logs
\* it), or goes on to its first access of the session.
PlayerEnd ==
    \E i \in 1..Len(players) : \E err \in BOOLEAN :
        /\ players[i].st = "playing"
        /\ players' = IF PNEntry(impl, err) = "raise"
                      THEN [players EXCEPT ![i] = Dead]
                      ELSE [players EXCEPT ![i].st = "cb", ![i].pc = PNEntry(impl, err), ![i].err = err]
        /\ clean' = (clean /\ ~err)
        /\ UNCHANGED <<regVars, logging, impl, queue, now_playing, vc_player, tasks, loop, nextId, ops, calls, last>>

\* play_next as the `after` callback, on the player's thread; what it
\* raises is logged by the player thread and goes nowhere.
CallbackStep ==
    \E i \in 1..Len(players) :
        /\ players[i].st = "cb"
        /\ LET r == play_next(impl, players[i].pc, players[i].loc, players[i].err, queue, now_playing) IN
            /\ queue' = r.q
            /\ now_playing' = r.np
            /\ tasks' = Spawn(tasks, r.spawn, "cb")
            /\ players' = IF r.pc \in {"ret", "raise"}
                          THEN [players EXCEPT ![i] = Dead]
                          ELSE [players EXCEPT ![i].pc = r.pc, ![i].loc = r.loc]
        /\ UNCHANGED <<regVars, logging, impl, vc_player, loop, nextId, ops, calls, last, clean>>

RegInit ==
    /\ audio_controllers = [g \in 1..MaxGuilds |-> None]
    /\ callers = <<>>
    /\ nextCtl = 1

\* get_audio(guild_id), up to its await: the controller the dict holds is
\* returned at once; with none there, the coroutine waits in
\* bot.fetch_guild(guild_id).
GetAudio ==
    \E g \in 1..MaxGuilds :
        /\ Len(callers) < MaxCallers
        /\ callers' = Append(callers,
                IF audio_controllers[g] = None
                THEN [guild |-> g, pc |-> "fetch", ret |-> None]
                ELSE [guild |-> g, pc |-> "done", ret |-> audio_controllers[g]])
        /\ UNCHANGED <<audio_controllers, nextCtl>>
        /\ UNCHANGED <<logging, impl, queue, now_playing, players, vc_player, tasks, loop, nextId, ops, calls, last, clean>>

\* get_audio after fetch_guild returned: a new AudioController is
\* constructed, stored under the guild id and returned.
GetAudioFetched ==
    \E i \in 1..Len(callers) :
        /\ callers[i].pc = "fetch"
        /\ audio_controllers' = [audio_controllers EXCEPT ![callers[i].guild] = nextCtl]
        /\ callers' = [callers EXCEPT ![i].pc = "done", ![i].ret = nextCtl]
        /\ nextCtl' = nextCtl + 1
        /\ UNCHANGED <<logging, impl, queue, now_playing, players, vc_player, tasks, loop, nextId, ops, calls, last, clean>>

\* bot.fetch_guild raises: get_audio raises with nothing stored.
GetAudioFetchFail ==
    \E i \in 1..Len(callers) :
        /\ callers[i].pc = "fetch"
        /\ callers' = [callers EXCEPT ![i].pc = "raised"]
        /\ UNCHANGED <<audio_controllers, nextCtl>>
        /\ UNCHANGED <<logging, impl, queue, now_playing, players, vc_player, tasks, loop, nextId, ops, calls, last, clean>>

Init == SessInit /\ RegInit /\ logging = FALSE

\* The same program, with the history of voice_client.play calls kept.
InitLog == SessInit /\ RegInit /\ logging = TRUE

Next ==
    \/ AddResolveFail \/ AddResolve \/ AddCheck \/ LoopPlayNext
    \/ BeginSkip \/ SkipStop
    \/ BeginPause \/ Pause
    \/ BeginStop \/ StopCheck \/ StopClear \/ StopDummy
    \/ PlaySongSet \/ PlaySongPlay
    \/ PlayerEnd \/ CallbackStep

Spec == Init /\ [][Next]_vars

SpecLog == InitLog /\ [][Next]_vars

\* The registry of main(): get_audio coroutines on the event loop.
RegNext == GetAudio \/ GetAudioFetched \/ GetAudioFetchFail

\* get_audio is a closure of main() in __main__.py.
InitReg == Init /\ impl = "main"

RegSpec == InitReg /\ [][RegNext]_vars

----------------------------------------------------------------------------
\* C4: every get_audio call that has returned for one guild returned the
\* same AudioController, also when the calls ran concurrently, and the
\* controller stored for a guild is the one they returned.
C4_SameInstance ==
    \A i, j \in 1..Len(callers) :
        (callers[i].pc = "done" /\ callers[j].pc = "done" /\ callers[i].guild = callers[j].guild)
            => callers[i].ret = callers[j].ret


----------------------------------------------------------------------------
\* Vocabulary of the claims.

\* The loop is between handlers, no play_song task waits and no callback
\* is in progress.
Settled == loop.op = "idle" /\ Quiet

\* The tracks the queue holds, in order.
QueueTracks == titles(queue)

Count(seq, P(_)) == Len(SelectSeq(seq, P))

\* voice_client.play calls issued for track t.
Starts(t) == Count(calls, LAMBDA c : c.song = t)

\* play_song tasks for track t that are waiting or running.
Pending(t) == Count(tasks, LAMBDA k : k.song = t)
              + (IF loop.op = "task" /\ loop.loc = t THEN 1 ELSE 0)

\* Starts scheduled and not yet issued, for any track.
PendingStarts == Len(tasks) + (IF loop.op = "task" THEN 1 ELSE 0)

\* The track the add begun last appended, when it appended one.
NewTrack == nextId - 1

\* C1: an add of one track t to a session that is Idle, after adds and
\* error-free endings only, returns NOW_PLAYING and brings about exactly
\* one transport start, which is for t and is accepted, with now_playing
\* equal to t while the transport holds t.
C1_IdleAddStartsOnce ==
    (last.op = "add" /\ last.clean /\ last.n = 1 /\ loop.op # "add") =>
        /\ last.ret = "NOW_PLAYING"
        /\ Starts(NewTrack) + Pending(NewTrack) = 1
        /\ \A i \in 1..Len(calls) : calls[i].song = NewTrack => calls[i].ok
        /\ (Holds /\ CurSong = NewTrack) => now_playing = NewTrack


\* The voice_client.play calls issued since the command begun last began.
Since == SubSeq(calls, last.nc + 1, Len(calls))

\* C2: a skip that met the session playing T1 with the queue [T1, T2, ...]
\* has, once everything it set off has run, brought about the start of T2
\* as the first start after it; while the transport then holds T2 no other
\* start was issued, now_playing and the head of the queue are T2 and the
\* tracks after T1 are all still queued in their order.
C2_SkipAdvancesOnce ==
    (last.op = "skip" /\ Len(last.q) >= 2 /\ Settled) =>
        /\ Since # <<>>
        /\ Since[1] = [song |-> last.q[2], ok |-> TRUE]
        /\ (Holds /\ CurSong = last.q[2]) =>
                /\ Len(Since) = 1
                /\ now_playing = last.q[2]
                /\ queue # <<>> /\ Head(queue) = last.q[2]
                /\ QueueTracks = Tail(last.q)

\* C3: at most one start is scheduled and not yet issued, no start is
\* issued while the transport is playing, and a start is scheduled only by
\* the completion callback or by an add that met the session idle.
C3_OneStartInFlight ==
    /\ PendingStarts <= 1
    /\ loop.op = "task" => ~is_playing
    /\ \A i \in 1..Len(tasks) : tasks[i].by \in {"cb", "add_idle"}

\* C5: when stop has returned on a session that was Playing or Paused,
\* now_playing is empty, the transport holds no track and the queue holds
\* no tracks.
C5_StopLeavesIdle ==
    (last.op = "stop" /\ last.pre \in {"Playing", "Paused"} /\ last.ret = "None") =>
        /\ now_playing = None
        /\ ~Holds
        /\ QueueTracks = <<>>

\* C6: from the beginning of an add that met the session Paused, no start
\* is scheduled or issued, the transport stays paused on the same track
\* and now_playing stays that track.
C6_PausedAddOnlyQueues ==
    (last.op = "add" /\ last.pre = "Paused") =>
        /\ PendingStarts = 0
        /\ is_paused
        /\ now_playing = CurSong
        /\ loop.op = "add" => loop.pc = "add_chk"

\* C7: the steps of an add of one track taken while the transport is
\* playing only append the track at the end of the queue and return
\* QUEUED: no play_song task is created, now_playing and the players are
\* left alone.
C7_PlayingAddOnlyQueues ==
    [][/\ (loop.op = "idle" /\ loop'.op = "add" /\ is_playing /\ last'.n = 1) =>
            /\ queue' = Append(queue, NewTrack')
            /\ UNCHANGED <<now_playing, tasks, players, vc_player>>
       /\ (loop.op = "add" /\ loop.pc = "add_chk" /\ loop' # loop /\ is_playing /\ last.n = 1) =>
            /\ loop'.op = "idle"
            /\ last'.ret = "QUEUED"
            /\ UNCHANGED <<queue, now_playing, tasks, players, vc_player>>]_vars

C7_Witness ==
    /\ last.op = "add" /\ last.pre = "Playing" /\ last.n = 1 /\ last.ret = "QUEUED"
    /\ is_playing
    /\ Len(QueueTracks) >= 2
    /\ queue[Len(queue)] = NewTrack

\* C8: when nothing is in flight, now_playing is non-empty exactly when
\* the transport holds a track (playing or paused).
C8_NowPlayingIffHolds == Settled => (now_playing # None <=> Holds)

\* C9: once stop has begun, and until the next command, no
\* voice_client.play is issued: every track there is was enqueued before
\* the stop.
C9_NoStartAfterStop == last.op = "stop" => Since = <<>>

\* C10: after a skip that met the session playing the only track of the
\* queue, no start is ever scheduled, and once the skip and the callback
\* have run the session is Idle: now_playing empty, nothing held by the
\* transport, no tracks in the queue.
C10_SkipLastGoesIdle ==
    (last.op = "skip" /\ Len(last.q) = 1) =>
        /\ PendingStarts = 0
        /\ Settled => (now_playing = None /\ ~Holds /\ QueueTracks = <<>>)

C10_Witness ==
    /\ last.op = "skip" /\ Len(last.q) = 1 /\ last.ret # "-"
    /\ Settled
    /\ Len(players) >= 1

\* C11: in __main__.py the pause command passes its check whenever the
\* session has a current track, Playing or Paused, and is rejected when the
\* session is Idle: a paused session can be resumed by the pause command.
C11_PauseWheneverCurrent ==
    impl = "main" =>
        /\ (PlayingNow \/ PausedNow) => is_playing_check(impl)
        /\ IdleNow => ~is_playing_check(impl)

\* C12: AudioController.pause on a playing transport pauses it and returns
\* True, on a paused transport resumes it and returns False, and in both
\* cases leaves the queue, now_playing and everything else of the session
\* alone.
C12_PauseToggles ==
    [][(loop.op = "pause" /\ loop'.op = "idle") =>
            /\ UNCHANGED <<queue, now_playing, tasks, vc_player>>
            /\ is_playing =>
                    /\ last'.ret = "True"
                    /\ players' = [players EXCEPT ![vc_player].st = "paused"]
            /\ is_paused =>
                    /\ last'.ret = "False"
                    /\ players' = [players EXCEPT ![vc_player].st = "playing"]]_vars

C12_Witness ==
    /\ last.op = "pause" /\ last.pre = "Paused" /\ last.ret = "False"
    /\ loop.op = "idle"
    /\ is_playing /\ now_playing = CurSong
    /\ QueueTracks # <<>>

\* C13: a callback delivered with an error never goes on into play_next's
\* body, and the step in which a playing source ends with an error (the
\* player thread is done at once, play_next having raised) leaves the
\* queue, now_playing, the scheduled starts and the voice client alone.
C13_ErrorHaltsAdvance ==
    /\ [](\A i \in 1..Len(players) : players[i].st = "cb" => ~players[i].err)
    /\ [][(\E i \in 1..Len(players) : players[i].st = "playing" /\ players'[i].st = "dead") =>
            UNCHANGED <<queue, now_playing, tasks, vc_player, loop>>]_vars

C13_Witness ==
    /\ ops = 1 /\ last.op = "add" /\ last.ret = "NOW_PLAYING"
    /\ ~clean
    /\ Settled /\ ~Holds
    /\ now_playing # None
    /\ QueueTracks = <<now_playing>>

\* C14: the step of an add whose query fails to resolve (nothing was
\* resolved, the add raised) leaves the queue, now_playing, the voice
\* client's players, the scheduled starts and the play calls unchanged.
C14_FailedAddChangesNothing ==
    [][(ops' = ops + 1 /\ last'.op = "add" /\ last'.ret = "raised" /\ nextId' = nextId) =>
            UNCHANGED <<queue, now_playing, players, vc_player, tasks, calls, loop>>]_vars

C14_Witness ==
    /\ last.op = "add" /\ last.ret = "raised" /\ last.pre = "Paused"
    /\ nextId = 2
    /\ is_paused /\ now_playing = 1 /\ QueueTracks = <<1>>

\* C15: after N adds of one track each and N error-free natural endings,
\* with no other command and nothing in flight, the session is Idle with
\* no tracks queued and the play calls issued are exactly one accepted
\* call per track, in the order the tracks were enqueued.
C15_QueueBalance ==
    (clean /\ Settled /\ ~Holds /\ ops >= 1 /\ nextId = ops + 1 /\ Len(players) = ops) =>
        /\ now_playing = None
        /\ QueueTracks = <<>>
        /\ calls = [i \in 1..ops |-> [song |-> i, ok |-> TRUE]]

\* play_next() run from its first statement to its end with nothing else
\* running in between: where it ends ("ret" or "raise") and what it leaves.
RECURSIVE run_play_next(_, _, _, _, _)
run_play_next(im, pc, loc, q, np) ==
    LET r == play_next(im, pc, loc, FALSE, q, np) IN
        IF r.pc \in {"ret", "raise"} THEN r ELSE run_play_next(im, r.pc, r.loc, r.q, r.np)

\* An error-free completion callback stands at its first access of the
\* session.
CallbackBegins ==
    \E i \in 1..Len(players) :
        players[i].st = "cb" /\ ~players[i].err /\ players[i].pc = PNEntry(impl, FALSE)

\* The session is idle and holds no tracks.
Exhausted(q, np) == np = None /\ titles(q) = <<>>

\* C16: an error-free completion callback that begins on a session that is
\* Idle with no tracks queued returns without raising, schedules no start and leaves
\* the session Idle with no tracks, and so does a second one after it.
C16_AdvanceAtExhaustion ==
    (CallbackBegins /\ ~Holds /\ tasks = <<>> /\ Exhausted(queue, now_playing)) =>
        LET r1 == run_play_next(impl, "pn_start", None, queue, now_playing)
            r2 == run_play_next(impl, "pn_start", None, r1.q, r1.np)
        IN  /\ r1.pc = "ret" /\ r1.spawn = None /\ Exhausted(r1.q, r1.np)
            /\ r2.pc = "ret" /\ r2.spawn = None /\ Exhausted(r2.q, r2.np)

\* C17: while a track is playing and nothing is in flight, titles does not
\* list the playing track: it lists the tracks not yet started only.
C17_TitlesOnlyPending ==
    (PlayingNow /\ loop.op = "idle") =>
        \A i \in 1..Len(QueueTracks) : QueueTracks[i] # now_playing

\* C18: in __main__.py, a step of Playlist.add in which the query
\* resolved to N >= 1 tracks appends those N tracks, in resolver order, at
\* the end of the queue.
C18_AddAppendsAll ==
    [][(impl = "main" /\ nextId' > nextId) =>
            queue' = queue \o [i \in 1..(nextId' - nextId) |-> nextId + i - 1]]_vars

\* C19: in audio.py, an add of one track that follows a stop which met the
\* session Playing has, once it returned, brought about exactly one start
\* for that track (issued or scheduled).
C19_AddAfterStopStarts ==
    (impl = "audio" /\ last.op = "add" /\ last.stopped /\ last.n = 1 /\ loop.op # "add") =>
        /\ last.ret = "NOW_PLAYING"
        /\ Starts(NewTrack) + Pending(NewTrack) = 1

\* C20: in __main__.py the queue holds at most one None, and only at its
\* head; when the session is Idle with nothing in progress the queue is
\* exactly [None].
C20_OneSentinelAtHead ==
    impl = "main" =>
        /\ \A i \in 2..Len(queue) : queue[i] # None
        /\ (IdleNow /\ loop.op = "idle") => queue = <<None>>

====
